---------------------------- MODULE Spec2Model ----------------------------
(***************************************************************************)
(* A model of color_analysis.py: the colour conversions (hex, CMYK),       *)
(* the harmony calculator, analyze_image (histogram, re-sort, dominant     *)
(* colour, per-colour records), save_analysis and batch_process.           *)
(*                                                                         *)
(* Python floats are IEEE-754 binary64 values.  The code rounds and        *)
(* truncates results of float arithmetic, so the arithmetic is modelled    *)
(* bit-exactly: a float is a sign, a 53-bit significand and an exponent,   *)
(* and every operation rounds the exact result to nearest, ties to even.   *)
(* Significands do not fit the model checker's integers; they are kept as  *)
(* little-endian sequences of limbs.                                       *)
(***************************************************************************)
EXTENDS Integers, Sequences, FiniteSets, TLC

(***************************************************************************)
(* Natural numbers of arbitrary size: little-endian limbs, no high zeros.  *)
(* Carries are found by look-ahead and quotient digits by estimation, so   *)
(* that no operation recurses along the bits of a number.                  *)
(***************************************************************************)
LimbBase == 2^15
LimbBits == CHOOSE b \in 1..30 : 2^b = LimbBase

Pow2(k) == 2^k

\* the number of bits of a limb
LimbBitLen(n) ==
    CHOOSE b \in 0..LimbBits : n < 2^b /\ (b = 0 \/ n >= 2^(b - 1))

SetMax(S) == CHOOSE i \in S : \A j \in S : j <= i

Limb(a, i) == IF i >= 1 /\ i <= Len(a) THEN a[i] ELSE 0

\* The list with the items f[1], ..., f[n], each computed once
PyList(f) == <<>> \o f

\* Python evaluates the statements of a function in order.  An argument of
\* an operator is evaluated when it is first used; InOrder(<<x1, ..., xn>>)
\* as a guard has x1, ..., xn evaluated there, in that order.
InOrder(xs) == xs = xs

BigNorm(a) ==
    LET nz == {i \in 1..Len(a) : a[i] # 0}
    IN  IF nz = {} THEN <<>> ELSE SubSeq(a, 1, SetMax(nz))

BigFromNat(n) ==
    BigNorm(<<n % LimbBase, (n \div LimbBase) % LimbBase,
              n \div (LimbBase * LimbBase)>>)

\* for a < 2^31
BigToNat(a) ==
    Limb(a, 1) + LimbBase * Limb(a, 2) + LimbBase * LimbBase * Limb(a, 3)

BigCmp(a, b) ==
    IF Len(a) < Len(b) THEN -1
    ELSE IF Len(a) > Len(b) THEN 1
    ELSE LET df == {i \in 1..Len(a) : a[i] # b[i]}
         IN  IF df = {} THEN 0
             ELSE IF a[SetMax(df)] < b[SetMax(df)] THEN -1 ELSE 1

BigAdd(a, b) ==
    LET n == (IF Len(a) > Len(b) THEN Len(a) ELSE Len(b)) + 1
        sm == [i \in 1..n |-> Limb(a, i) + Limb(b, i)]
        carry(i) == \E j \in 1..(i - 1) :
                        /\ sm[j] >= LimbBase
                        /\ \A k \in (j + 1)..(i - 1) : sm[k] = LimbBase - 1
    IN  BigNorm([i \in 1..n |->
                    (sm[i] + (IF carry(i) THEN 1 ELSE 0)) % LimbBase])

\* a - b for a >= b
BigSub(a, b) ==
    LET df == [i \in 1..Len(a) |-> a[i] - Limb(b, i)]
        borrow(i) == \E j \in 1..(i - 1) :
                         /\ df[j] < 0
                         /\ \A k \in (j + 1)..(i - 1) : df[k] = 0
    IN  BigNorm([i \in 1..Len(a) |->
                    (df[i] - (IF borrow(i) THEN 1 ELSE 0)) % LimbBase])

\* a * k for 0 <= k < LimbBase
BigMulSmall(a, k) ==
    BigAdd(BigNorm([i \in 1..Len(a) |-> (a[i] * k) % LimbBase]),
           BigNorm([i \in 1..(Len(a) + 1) |->
                       IF i = 1 THEN 0 ELSE (a[i - 1] * k) \div LimbBase]))

\* a * LimbBase^w
BigShiftLimbs(a, w) ==
    IF a = <<>> THEN <<>> ELSE [i \in 1..w |-> 0] \o a

RECURSIVE BigMulFrom(_, _, _)
BigMulFrom(a, b, j) ==
    IF j > Len(b) THEN <<>>
    ELSE BigAdd(BigShiftLimbs(BigMulSmall(a, b[j]), j - 1),
                BigMulFrom(a, b, j + 1))

BigMul(a, b) == BigMulFrom(a, b, 1)

BigShl(a, k) ==
    BigMulSmall(BigShiftLimbs(a, k \div LimbBits), Pow2(k % LimbBits))

BigShr(a, k) ==
    LET w == k \div LimbBits
        p == Pow2(k % LimbBits)
        n == Len(a) - w
    IN  IF n <= 0 THEN <<>>
        ELSE BigNorm([i \in 1..n |->
                 (a[w + i] \div p) +
                 (IF i < n THEN (a[w + i + 1] % p) * (LimbBase \div p) ELSE 0)])

BigBitLen(a) ==
    IF a = <<>> THEN 0 ELSE (Len(a) - 1) * LimbBits + LimbBitLen(a[Len(a)])

\* bit i of a (bit 0 is the lowest)
BigBit(a, i) == (Limb(a, (i \div LimbBits) + 1) \div Pow2(i % LimbBits)) % 2

\* a mod 2^k = 0
BigLowZero(a, k) ==
    /\ \A i \in 1..(k \div LimbBits) : Limb(a, i) = 0
    /\ Limb(a, (k \div LimbBits) + 1) % Pow2(k % LimbBits) = 0

\* The quotient of the two top limbs of r by the top limb of d, capped at
\* the largest limb: at most 2 above the quotient digit r div d when
\* r < d * LimbBase and the top limb of d is at least LimbBase / 2.
QuotientEstimate(r, d) ==
    LET est == (Limb(r, Len(d) + 1) * LimbBase + Limb(r, Len(d)))
                   \div d[Len(d)]
    IN  IF est > LimbBase - 1 THEN LimbBase - 1 ELSE est

\* the largest of qhat, qhat - 1, qhat - 2 whose product with d is at most r
QuotientDigit(r, d, qhat) ==
    SetMax({c \in {qhat - 2, qhat - 1, qhat} :
               \/ c = qhat - 2
               \/ c >= 0 /\ BigCmp(BigMulSmall(d, c), r) <= 0})

BigDivDigitWith(r, d, q) == <<q, BigSub(r, BigMulSmall(d, q))>>

\* One step of long division: <<r div d, r mod d>>
BigDivDigit(r, d) ==
    BigDivDigitWith(r, d, QuotientDigit(r, d, QuotientEstimate(r, d)))

\* the digit dg = <<digit, remainder>> put below the quotient limbs above it
BigDivJoin(quot, dg) == <<BigNorm(<<dg[1]>> \o quot), dg[2]>>

\* limb is brought down to the remainder hi[2] of the higher limbs, which
\* are divided first
BigDivStep(limb, d, hi) ==
    CASE hi = hi ->
        BigDivJoin(hi[1], BigDivDigit(BigNorm(<<limb>> \o hi[2]), d))

\* <<quotient, remainder>> of limbs i..Len(n) of n by d; the top Len(d) - 1
\* limbs are below d and start as the remainder
RECURSIVE BigDivFrom(_, _, _)
BigDivFrom(n, d, i) ==
    IF i > Len(n) - (Len(d) - 1)
    THEN <<<<>>, BigNorm(SubSeq(n, i, Len(n)))>>
    ELSE BigDivStep(n[i], d, BigDivFrom(n, d, i + 1))

BigDivUnshift(qr, sh) == <<qr[1], BigShr(qr[2], sh)>>

\* n and d shifted so that the top limb of d is at least LimbBase / 2
BigDivShifted(nn, dn, sh) ==
    CASE nn = nn /\ dn = dn -> BigDivUnshift(BigDivFrom(nn, dn, 1), sh)

BigDivBy(n, d, sh) == BigDivShifted(BigShl(n, sh), BigShl(d, sh), sh)

\* <<n div d, n mod d>>, d > 0
BigDivMod(n, d) == BigDivBy(n, d, LimbBits - LimbBitLen(d[Len(d)]))

(***************************************************************************)
(* Python floats: [s |-> sign (0 or 1), m |-> significand, e |-> exponent] *)
(* stands for (-1)^s * m * 2^e.  m is <<>> for zero and has exactly        *)
(* MantBits bits otherwise, so equal floats are equal records.             *)
(***************************************************************************)
MantBits == 53

FZero == [s |-> 0, m |-> <<>>, e |-> 0]

\* m1 is a significand of MantBits bits plus at most one
FRenorm(s, m1, e) ==
    IF BigBitLen(m1) > MantBits
    THEN [s |-> s, m |-> BigShr(m1, 1), e |-> e + 1]
    ELSE [s |-> s, m |-> m1, e |-> e]

FRoundUp(s, m0, up, e) ==
    FRenorm(s, IF up THEN BigAdd(m0, <<1>>) ELSE m0, e)

\* the low drop bits of q are rounded off: up when they are more than half,
\* or exactly half with the kept part odd
FRoundDrop(s, q, sticky, e, drop) ==
    FRoundUp(s, BigShr(q, drop),
             /\ BigBit(q, drop - 1) = 1
             /\ \/ sticky
                \/ ~BigLowZero(q, drop - 1)
                \/ BigBit(q, drop) = 1,
             e + drop)

\* The float nearest to (q + f) * 2^e, ties to even, where 0 <= f < 1 and
\* f > 0 iff sticky.  q has at least MantBits + 2 bits when sticky.
FRound(s, q, sticky, e) ==
    IF q = <<>> THEN FZero
    ELSE IF BigBitLen(q) <= MantBits
    THEN [s |-> s, m |-> BigShl(q, MantBits - BigBitLen(q)),
          e |-> e - (MantBits - BigBitLen(q))]
    ELSE FRoundDrop(s, q, sticky, e, BigBitLen(q) - MantBits)

\* float(n) for an int n
FInt(n) ==
    FRound(IF n < 0 THEN 1 ELSE 0, BigFromNat(IF n < 0 THEN -n ELSE n),
           FALSE, 0)

FNeg(x) == IF x.m = <<>> THEN x ELSE [x EXCEPT !.s = 1 - x.s]

FMul(x, y) ==
    IF x.m = <<>> \/ y.m = <<>> THEN FZero
    ELSE FRound((x.s + y.s) % 2, BigMul(x.m, y.m), FALSE, x.e + y.e)

FDivRound(x, y, qr) ==
    FRound((x.s + y.s) % 2, qr[1], qr[2] # <<>>, x.e - y.e - (MantBits + 2))

\* x / y; y = 0 raises ZeroDivisionError, which no caller lets happen, and
\* is left undefined
FDiv(x, y) ==
    CASE y.m # <<>> ->
        IF x.m = <<>> THEN FZero
        ELSE FDivRound(x, y, BigDivMod(BigShl(x.m, MantBits + 2), y.m))

\* xm * 2^lo and ym * 2^lo with signs xs and ys are added; c compares xm, ym
FAddSigned(xs, xm, ys, ym, lo, c) ==
    IF xs # ys /\ c = 0 THEN FZero
    ELSE FRound(IF xs = ys \/ c > 0 THEN xs ELSE ys,
                IF xs = ys THEN BigAdd(xm, ym)
                ELSE IF c > 0 THEN BigSub(xm, ym) ELSE BigSub(ym, xm),
                FALSE, lo)

FAddAligned(xs, xm, ys, ym, lo) ==
    FAddSigned(xs, xm, ys, ym, lo, BigCmp(xm, ym))

MinExp(x, y) == IF x.e < y.e THEN x.e ELSE y.e

FAdd(x, y) ==
    IF x.m = <<>> THEN y
    ELSE IF y.m = <<>> THEN x
    ELSE FAddAligned(x.s, BigShl(x.m, x.e - MinExp(x, y)),
                     y.s, BigShl(y.m, y.e - MinExp(x, y)), MinExp(x, y))

FSub(x, y) == FAdd(x, FNeg(y))

\* -1, 0, 1 as x < 0, x = 0, x > 0
FSign(x) == IF x.m = <<>> THEN 0 ELSE IF x.s = 1 THEN -1 ELSE 1

\* -1, 0, 1 as |x| < |y|, |x| = |y|, |x| > |y|, for x and y not zero
FCmpAbs(x, y) ==
    IF x.e < y.e THEN -1 ELSE IF x.e > y.e THEN 1 ELSE BigCmp(x.m, y.m)

\* -1, 0, 1 as x < y, x = y, x > y
FCmp(x, y) ==
    IF FSign(x) < FSign(y) THEN -1
    ELSE IF FSign(x) > FSign(y) THEN 1
    ELSE IF FSign(x) = 0 THEN 0
    ELSE FSign(x) * FCmpAbs(x, y)

FLess(x, y) == FCmp(x, y) < 0

\* int(x): truncation toward zero
FTrunc(x) ==
    IF x.m = <<>> THEN 0
    ELSE FSign(x) * BigToNat(IF x.e >= 0 THEN BigShl(x.m, x.e)
                             ELSE BigShr(x.m, -x.e))

\* whole is raised on more than half, or on exactly half when it is odd
HalfEven(whole, half, rest) ==
    IF half /\ (rest \/ whole % 2 = 1) THEN whole + 1 ELSE whole

\* The integer nearest to m * 2^e, exact ties to even.
BigRoundHalfEven(m, e) ==
    IF m = <<>> THEN 0
    ELSE IF e >= 0 THEN BigToNat(BigShl(m, e))
    ELSE HalfEven(BigToNat(BigShr(m, -e)), BigBit(m, -e - 1) = 1,
                  ~BigLowZero(m, -e - 1))

\* int() in the place of round()
PyTruncate(x) == FTrunc(x)

\* round(x): Python rounds the float's exact value, ties to even
PyRound(x) == FSign(x) * BigRoundHalfEven(x.m, x.e)

\* round(x, 2) in hundredths: the float's exact value is rounded to two
\* decimals, exact ties to even (the result is the float nearest to
\* PyRound2(x) / 100, which prints as that two-decimal number).
PyRound2(x) == FSign(x) * BigRoundHalfEven(BigMulSmall(x.m, 100), x.e)

\* fmod(x, y) for x # 0, y > 0: exact, with the sign of x
FMod(x, y, lo) ==
    FRound(x.s, BigDivMod(BigShl(x.m, x.e - lo), BigShl(y.m, y.e - lo))[2],
           FALSE, lo)

\* Python adds y (a rounded addition) when the remainder is negative
PyModSign(rem, y) ==
    IF rem.m # <<>> /\ rem.s = 1 THEN FAdd(rem, y) ELSE rem

\* x % y for y > 0
PyMod(x, y) ==
    CASE y.m # <<>> ->
        IF x.m = <<>> THEN FZero ELSE PyModSign(FMod(x, y, MinExp(x, y)), y)

(***************************************************************************)
(* ColorConverter                                                          *)
(***************************************************************************)
HexLower == <<"0", "1", "2", "3", "4", "5", "6", "7",
              "8", "9", "a", "b", "c", "d", "e", "f">>
HexUpper == <<"0", "1", "2", "3", "4", "5", "6", "7",
              "8", "9", "A", "B", "C", "D", "E", "F">>
Whitespace == {" "}

IsHexDigit(ch) ==
    \E i \in 1..16 : HexLower[i] = ch \/ HexUpper[i] = ch

HexDigitValue(ch) ==
    (CHOOSE i \in 1..16 : HexLower[i] = ch \/ HexUpper[i] = ch) - 1

RECURSIVE LStrip(_, _)
LStrip(str, chars) ==
    IF str # <<>> /\ Head(str) \in chars THEN LStrip(Tail(str), chars) ELSE str

RECURSIVE RStrip(_, _)
RStrip(str, chars) ==
    IF str # <<>> /\ str[Len(str)] \in chars
    THEN RStrip(SubSeq(str, 1, Len(str) - 1), chars)
    ELSE str

\* str[i:j] with 0 <= i <= j: a slice past the end is cut short, not an error
Slice(str, i, j) ==
    SubSeq(str, i + 1, IF j < Len(str) THEN j ELSE Len(str))

RECURSIVE HexDigitsValue(_, _)
HexDigitsValue(ds, acc) ==
    IF ds = <<>> THEN acc
    ELSE HexDigitsValue(Tail(ds), 16 * acc + HexDigitValue(Head(ds)))

\* int(str, 16) for a str of at most two characters (too short for a 0x
\* prefix or an underscore between digits): surrounding whitespace is
\* dropped, one sign is allowed, then one or two hex digits must follow.
\* The result is [raised |-> TRUE] for a ValueError.
PyInt16(str) ==
    LET t      == RStrip(LStrip(str, Whitespace), Whitespace)
        signed == t # <<>> /\ Head(t) \in {"+", "-"}
        ds     == IF signed THEN Tail(t) ELSE t
    IN  IF ds = <<>> \/ \E i \in 1..Len(ds) : ~IsHexDigit(ds[i])
        THEN [raised |-> TRUE, value |-> 0]
        ELSE IF signed /\ Head(t) = "-"
        THEN [raised |-> FALSE, value |-> -HexDigitsValue(ds, 0)]
        ELSE [raised |-> FALSE, value |-> HexDigitsValue(ds, 0)]

\* The result is [raised |-> TRUE] when an int() raises ValueError.
hex_to_rgb(hex_color) ==
    LET stripped == LStrip(hex_color, {"#"})
        ch == [k \in 1..3 |-> PyInt16(Slice(stripped, 2 * (k - 1), 2 * k))]
    IN  IF \E k \in 1..3 : ch[k].raised
        THEN [raised |-> TRUE, value |-> <<>>]
        ELSE [raised |-> FALSE, value |-> [k \in 1..3 |-> ch[k].value]]

\* "{:02x}": at least two lower-case hex digits
Format02x(n) == <<HexLower[(n \div 16) + 1], HexLower[(n % 16) + 1]>>

rgb_to_hex(rgb) ==
    <<"#">> \o Format02x(rgb[1]) \o Format02x(rgb[2]) \o Format02x(rgb[3])

\* min(c, m, y): the first of the smallest
PyMin3(c, m, y) ==
    LET cm == IF FLess(m, c) THEN m ELSE c
    IN  IF FLess(y, cm) THEN y ELSE cm

\* lines 104-116, with cmy = <<c, m, y>> of lines 99-101 and k of line 102
CmykScaled(cmy, k) ==
    IF FCmp(k, FInt(1)) = 0 THEN <<0, 0, 0, 100>>
    ELSE PyList([n \in 1..4 |->
             PyRound(FMul(IF n = 4 THEN k
                          ELSE FDiv(FSub(cmy[n], k), FSub(FInt(1), k)),
                          FInt(100)))])

\* line 102
CmykOf(cmy) == CmykScaled(cmy, PyMin3(cmy[1], cmy[2], cmy[3]))

rgb_to_cmyk(r, g, b) ==
    IF r = 0 /\ g = 0 /\ b = 0 THEN <<0, 0, 0, 100>>
    ELSE CmykOf(PyList([n \in 1..3 |->
                   FSub(FInt(1), FDiv(FInt(<<r, g, b>>[n]), FInt(255)))]))

(***************************************************************************)
(* colorsys (standard library), as called by the harmony calculator and    *)
(* the sort keys.  Arguments and results are floats.                       *)
(***************************************************************************)
PyMax3(a, b, c) ==
    LET ab == IF FLess(a, b) THEN b ELSE a
    IN  IF FLess(ab, c) THEN c ELSE ab

\* h before it is scaled to [0, 1): bc - gc, 2.0 + rc - bc or 4.0 + gc - rc,
\* with dc = <<rc, gc, bc>>
HueSextant(rgb, maxc, dc) ==
    IF FCmp(rgb[1], maxc) = 0 THEN FSub(dc[3], dc[2])
    ELSE FSub(FAdd(FInt(IF FCmp(rgb[2], maxc) = 0 THEN 2 ELSE 4),
                   IF FCmp(rgb[2], maxc) = 0 THEN dc[1] ELSE dc[2]),
              IF FCmp(rgb[2], maxc) = 0 THEN dc[3] ELSE dc[1])

\* h = (h / 6.0) % 1.0 and s = rangec / maxc
HsvOfDistances(rgb, maxc, rangec, dc) ==
    <<PyMod(FDiv(HueSextant(rgb, maxc, dc), FInt(6)), FInt(1)),
      FDiv(rangec, maxc), maxc>>

\* rc, gc, bc = (maxc - r) / rangec, (maxc - g) / rangec, (maxc - b) / rangec
HsvOfRange(rgb, maxc, rangec) ==
    HsvOfDistances(rgb, maxc, rangec,
                   PyList([n \in 1..3 |-> FDiv(FSub(maxc, rgb[n]), rangec)]))

HsvOfExtremes(rgb, maxc, minc) ==
    IF FCmp(minc, maxc) = 0 THEN <<FZero, FZero, maxc>>
    ELSE HsvOfRange(rgb, maxc, FSub(maxc, minc))

rgb_to_hsv(r, g, b) ==
    HsvOfExtremes(<<r, g, b>>, PyMax3(r, g, b), PyMin3(r, g, b))

\* the return of hsv_to_rgb for i = i % 6
RgbOfSector(i, v, p, q, t) ==
    CASE i = 0 -> <<v, t, p>>
      [] i = 1 -> <<q, v, p>>
      [] i = 2 -> <<p, v, t>>
      [] i = 3 -> <<p, q, v>>
      [] i = 4 -> <<t, p, v>>
      [] i = 5 -> <<v, p, q>>

\* v * (1.0 - s * f)
HsvMix(v, s, f) == FMul(v, FSub(FInt(1), FMul(s, f)))

\* p = v*(1.0 - s), q = v*(1.0 - s*f), t = v*(1.0 - s*(1.0 - f))
RgbOfFraction(s, v, i, f) ==
    RgbOfSector(i % 6, v, FMul(v, FSub(FInt(1), s)), HsvMix(v, s, f),
                HsvMix(v, s, FSub(FInt(1), f)))

\* i = int(h*6.0) and f = (h*6.0) - i
RgbOfScaledHue(h6, s, v) ==
    RgbOfFraction(s, v, FTrunc(h6), FSub(h6, FInt(FTrunc(h6))))

hsv_to_rgb(h, s, v) ==
    IF s.m = <<>> THEN <<v, v, v>> ELSE RgbOfScaledHue(FMul(h, FInt(6)), s, v)

(***************************************************************************)
(* ColorHarmony                                                            *)
(***************************************************************************)
\* tuple(int(x * 255) for x in rgb)
RgbToInt(rgb) == PyList([k \in 1..3 |-> FTrunc(FMul(rgb[k], FInt(255)))])

\* tuple(int(x * 255) for x in colorsys.hsv_to_rgb(h / 360, s, v))
HsvToRgbInt(hsv) ==
    RgbToInt(hsv_to_rgb(FDiv(hsv[1], FInt(360)), hsv[2], hsv[3]))

\* the amounts by which lines 130-152 shift the hue
HueShifts == {-30, 30, 90, 120, 180, 240, 270}

\* (h + d) % 360 for each shift d
ShiftedHues(h) ==
    [d \in HueShifts |-> PyMod(FAdd(h, FInt(d)), FInt(360))]

\* harmonies of lines 130-153, where hue[d] is (h + d) % 360
HarmonyHsv(h, s, v, hue) ==
    [complementary |-> << <<hue[180], s, v>> >>,
     analogous     |-> << <<hue[-30], s, v>>, <<h, s, v>>, <<hue[30], s, v>> >>,
     triadic       |-> << <<hue[120], s, v>>, <<h, s, v>>, <<hue[240], s, v>> >>,
     tetradic      |-> << <<h, s, v>>, <<hue[90], s, v>>, <<hue[180], s, v>>,
                          <<hue[270], s, v>> >>]

\* lines 156-162
HarmonyRgb(harmonies) ==
    [key \in DOMAIN harmonies |->
        PyList([n \in 1..Len(harmonies[key]) |->
                   HsvToRgbInt(harmonies[key][n])])]

\* lines 127-162 with h in degrees
HarmoniesAt(h, s, v) == HarmonyRgb(HarmonyHsv(h, s, v, ShiftedHues(h)))

\* r / 255, g / 255, b / 255
UnitRgb(rgb) == PyList([n \in 1..3 |-> FDiv(FInt(rgb[n]), FInt(255))])

HsvOfUnit(unit) == rgb_to_hsv(unit[1], unit[2], unit[3])

\* line 127
HarmoniesOfHsv(hsv) == HarmoniesAt(FMul(hsv[1], FInt(360)), hsv[2], hsv[3])

\* the base colour put first among the triadic colours
find_harmonies_base_first(base_color) ==
    [HarmoniesOfHsv(HsvOfUnit(UnitRgb(base_color))) EXCEPT
         !.triadic = <<@[2], @[1], @[3]>>]

find_harmonies(base_color) == HarmoniesOfHsv(HsvOfUnit(UnitRgb(base_color)))

(***************************************************************************)
(* ImageAnalyzer.analyze_image                                             *)
(*                                                                         *)
(* A pixel is <<r, g, b, a>>.  A decoded file is a record                  *)
(* [ok, format, pixels]: ok = FALSE stands for a file on which Image.open  *)
(* or convert raises.  Images are one pixel high.  None is <<>>.           *)
(***************************************************************************)
None == <<>>

SortCriteria == {"frequency", "hue", "saturation", "brightness"}

\* The pixel values of the images analysed here
Opaque      == <<255, 0, 0, 255>>
Translucent == <<255, 0, 0, 128>>
Navy        == <<0, 0, 128, 255>>
Transparent == <<0, 0, 0, 0>>
Palette     == {Opaque, Translucent, Navy, Transparent}
PaletteRGB  == {SubSeq(px, 1, 3) : px \in Palette}

\* list.sort / sorted: xs in the stable order in which the item at index i
\* goes before the item at index j for every <<i, j>> in before (a strict
\* weak order on the indices); items that tie keep their order in xs
StableSort(xs, before) ==
    LET rank(i) == Cardinality({j \in 1..Len(xs) :
                       \/ <<j, i>> \in before
                       \/ <<i, j>> \notin before /\ j < i})
    IN  PyList([k \in 1..Len(xs) |->
                    xs[CHOOSE i \in 1..Len(xs) : rank(i) = k - 1]])

IndexPairs(xs) == (1..Len(xs)) \X (1..Len(xs))

\* Counter(pixels): <<color, count>> items in order of first insertion
Counter(pixels) ==
    LET firsts == {i \in 1..Len(pixels) :
                      \A j \in 1..(i - 1) : pixels[j] # pixels[i]}
        nth(k) == CHOOSE i \in firsts :
                      Cardinality({j \in firsts : j < i}) = k - 1
    IN  PyList([k \in 1..Cardinality(firsts) |->
            <<pixels[nth(k)],
              Cardinality({j \in 1..Len(pixels) :
                              pixels[j] = pixels[nth(k)]})>>])

\* the items left in insertion order
most_common_unsorted(color_counts) == color_counts

\* Counter.most_common(): sorted(items, key=count, reverse=True)
ByCount(x, y) == x[2] > y[2]

most_common(color_counts) ==
    StableSort(color_counts,
               {ij \in IndexPairs(color_counts) :
                   ByCount(color_counts[ij[1]], color_counts[ij[2]])})

\* [(color, count) for color, count in sorted_colors if color[3] > 0]
IsVisible(item) == item[1][4] > 0

visible_colors(sorted_colors) == SelectSeq(sorted_colors, IsVisible)

\* colorsys.rgb_to_hsv(item[0][0]/255, item[0][1]/255, item[0][2]/255)
HsvKey(rgb) == HsvOfUnit(UnitRgb(rgb))

\* the denominator taken over the visible pixels only
CountVisiblePixels(pixels) == Len(SelectSeq(pixels, LAMBDA px : px[4] > 0))

\* len(pixels)
CountPixels(pixels) == Len(pixels)

\* every frequency rounded up to the next hundredth
FrequencyCeil(count, total_pixels) ==
    (10000 * count + total_pixels - 1) \div total_pixels

\* round((count / total_pixels) * 100, 2), in hundredths of a percent
Frequency(count, total_pixels) ==
    PyRound2(FMul(FDiv(FInt(count), FInt(total_pixels)), FInt(100)))

\* Largest number of pixels of an analysed image
MaxPixels == 6

\* What the converters, the harmony calculator and the sort key return for
\* each colour of the palette, and every frequency an image of at most
\* MaxPixels pixels can show: computed once, looked up in every analysis
ForceTable(tbl) == CASE tbl = tbl -> tbl

ColorTable ==
    ForceTable([rgb \in PaletteRGB |->
                   [hex       |-> rgb_to_hex(rgb),
                    cmyk      |-> rgb_to_cmyk(rgb[1], rgb[2], rgb[3]),
                    harmonies |-> find_harmonies(rgb),
                    hsv       |-> HsvKey(rgb)]])

FrequencyTable ==
    ForceTable([total_pixels \in 1..MaxPixels |->
                   [count \in 1..total_pixels |->
                       Frequency(count, total_pixels)]])

RGBOf(color) == SubSeq(color, 1, 3)

\* the sort keys of lines 204-216 (hsv[1] is the hue, hsv[2] the
\* saturation, hsv[3] the brightness): hue ascending, the others
\* reverse=True.  colors holds the table of the palette.
ByHue(x, y, colors) ==
    FLess(colors[RGBOf(x[1])].hsv[1], colors[RGBOf(y[1])].hsv[1])

BySaturation(x, y, colors) ==
    FLess(colors[RGBOf(y[1])].hsv[2], colors[RGBOf(x[1])].hsv[2])

ByBrightness(x, y, colors) ==
    FLess(colors[RGBOf(y[1])].hsv[3], colors[RGBOf(x[1])].hsv[3])

SortColors(visible, sort_by, colors) ==
    CASE sort_by = "hue"        -> StableSort(visible,
               {ij \in IndexPairs(visible) :
                   ByHue(visible[ij[1]], visible[ij[2]], colors)})
      [] sort_by = "saturation" -> StableSort(visible,
               {ij \in IndexPairs(visible) :
                   BySaturation(visible[ij[1]], visible[ij[2]], colors)})
      [] sort_by = "brightness" -> StableSort(visible,
               {ij \in IndexPairs(visible) :
                   ByBrightness(visible[ij[1]], visible[ij[2]], colors)})
      [] OTHER                  -> visible

\* image_info.dominant_color after lines 219-229
DominantColor(sorted_colors) ==
    IF sorted_colors # <<>> THEN RGBOf(sorted_colors[1][1]) ELSE None

NotSkipped(item) == item[1][4] # 0

\* ColorInfo(...) of lines 236-243; converted holds what the converters and
\* the harmony calculator return for the rgb
ColorInfo(color, frequency, converted) ==
    [rgb       |-> RGBOf(color),
     hex       |-> converted.hex,
     cmyk      |-> converted.cmyk,
     frequency |-> frequency,
     harmonies |-> converted.harmonies]

Name(file_path) == <<file_path.stem, file_path.suffix>>

\* lines 219-246
ImageInfoOf(file_path, img, sorted_colors, kept, colors, frequencies) ==
    [filename       |-> Name(file_path),
     dimensions     |-> <<Len(img.pixels), 1>>,
     format         |-> img.format,
     colors         |-> PyList([n \in 1..Len(kept) |->
                            ColorInfo(kept[n][1], frequencies[kept[n][2]],
                                      colors[RGBOf(kept[n][1])])]),
     dominant_color |-> DominantColor(sorted_colors)]

\* lines 192-246 from sorted_colors of line 217 on
AnalysisOf(file_path, img, sorted_colors, colors, frequencies) ==
    [image_info    |-> ImageInfoOf(file_path, img, sorted_colors,
                                   SelectSeq(sorted_colors, NotSkipped),
                                   colors, frequencies),
     logs          |-> <<>>,
     total_pixels  |-> CountPixels(img.pixels),
     sorted_colors |-> sorted_colors]

\* lines 192-246
AnalyzePixels(file_path, img, sort_by, colors, frequencies) ==
    AnalysisOf(file_path, img,
               SortColors(visible_colors(most_common(Counter(img.pixels))),
                          sort_by, colors),
               colors, frequencies[CountPixels(img.pixels)])

\* The result holds the returned image_info, what the except clause logs,
\* and the locals total_pixels and sorted_colors (line 217) at the return.
analyze_image(file_path, img, sort_by) ==
    IF ~img.ok
    THEN [image_info    |-> None,
          logs          |-> <<<<"ERROR", "Error processing", file_path>>>>,
          total_pixels  |-> 0,
          sorted_colors |-> <<>>]
    ELSE AnalyzePixels(file_path, img, sort_by, ColorTable, FrequencyTable)

(***************************************************************************)
(* State: the operation under way and its arguments, where it stands, its  *)
(* result and locals, what the logger has received, and the files of the   *)
(* output directory.                                                       *)
(***************************************************************************)
VARIABLES pc, call, ret, frame, logged, out_files

vars == <<pc, call, ret, frame, logged, out_files>>

ImagePath == [parent |-> "a", stem |-> "x", suffix |-> ".png"]

Unreadable == [ok |-> FALSE, format |-> "", pixels |-> <<>>]

PixelSeqs(n) == UNION {[1..len -> Palette] : len \in 1..n}

\* analyze_image is called on one file with one sort criterion
InitAnalyze ==
    /\ pc = "call"
    /\ \E img \in {[ok |-> TRUE, format |-> "PNG", pixels |-> px] :
                      px \in PixelSeqs(MaxPixels)} \cup {Unreadable} :
       \E sort_by \in SortCriteria :
          call = [op |-> "analyze_image", file_path |-> ImagePath,
                  img |-> img, sort_by |-> sort_by]
    /\ ret = None
    /\ frame = <<>>
    /\ logged = <<>>
    /\ out_files = <<>>

AnalyzeImage ==
    /\ pc = "call"
    /\ call.op = "analyze_image"
    /\ \E res \in {analyze_image(call.file_path, call.img, call.sort_by)} :
           /\ ret' = res.image_info
           /\ logged' = logged \o res.logs
           /\ frame' = [total_pixels  |-> res.total_pixels,
                        sorted_colors |-> res.sorted_colors]
    /\ pc' = "return"
    /\ UNCHANGED <<call, out_files>>

NextAnalyze == AnalyzeImage

SpecAnalyze == InitAnalyze /\ [][NextAnalyze]_vars

(***************************************************************************)
(* Properties of analyze_image                                             *)
(***************************************************************************)
Returned == pc = "return" /\ call.op = "analyze_image" /\ ret # None

PixelsIn == call.img.pixels

\* number of pixels of the image equal to color
Occurrences(color) ==
    Cardinality({j \in 1..Len(PixelsIn) : PixelsIn[j] = color})

\* number of pixels of the image with these r, g, b and any alpha > 0
VisibleWithRGB(rgb) ==
    Cardinality({j \in 1..Len(PixelsIn) :
                    RGBOf(PixelsIn[j]) = rgb /\ PixelsIn[j][4] > 0})

FirstIndex(color) ==
    CHOOSE j \in 1..Len(PixelsIn) :
        PixelsIn[j] = color /\ \A i \in 1..(j - 1) : PixelsIn[i] # color

\* freq (in hundredths) is 100 * count / total rounded to two decimals
IsRounded2(freq, count, total) ==
    LET twice == 20000 * count - 2 * freq * total
    IN  -total <= twice /\ twice <= total

RECURSIVE SumFrequencies(_)
SumFrequencies(colors) ==
    IF colors = <<>> THEN 0
    ELSE Head(colors).frequency + SumFrequencies(Tail(colors))

\* C1: whatever the sort criterion, the returned dominant_color is the one
\* the same pixels yield under the frequency criterion (the RGB of the most
\* frequent visible colour): a re-sort does not change it.
DominantColorFixedBeforeSort ==
    Returned =>
        ret.dominant_color =
            analyze_image(call.file_path, call.img,
                          "frequency").image_info.dominant_color

\* C2: every RGB triple appears in at most one record of the returned list,
\* and the record's frequency counts all pixels with that RGB triple and any
\* alpha > 0 (alpha variants are merged).
OneRecordPerRGB ==
    Returned =>
        /\ \A i, j \in 1..Len(ret.colors) :
               ret.colors[i].rgb = ret.colors[j].rgb => i = j
        /\ \A i \in 1..Len(ret.colors) :
               IsRounded2(ret.colors[i].frequency,
                          VisibleWithRGB(ret.colors[i].rgb), Len(PixelsIn))

\* C3: pixels with alpha = 0 produce no record and add to no record's count,
\* yet are counted in the denominator: the records are, one for one, the
\* distinct pixel values with alpha > 0, and each frequency is that value's
\* number of pixels over the number of all pixels, times 100, rounded to two
\* decimals; (255,0,0,255),(0,0,0,0) give the one record (255,0,0) at 50.00.
TransparentExcludedButCounted ==
    Returned =>
        /\ Len(ret.colors) =
               Cardinality({PixelsIn[j] : j \in 1..Len(PixelsIn)}
                               \ {px \in Palette : px[4] = 0})
        /\ Len(frame.sorted_colors) = Len(ret.colors)
        /\ frame.total_pixels = Len(PixelsIn)
        /\ \A n \in 1..Len(ret.colors) :
               LET color == frame.sorted_colors[n][1]
               IN  /\ color[4] > 0
                   /\ \A k \in 1..Len(ret.colors) :
                          frame.sorted_colors[k][1] = color => k = n
                   /\ ret.colors[n].rgb = RGBOf(color)
                   /\ frame.sorted_colors[n][2] = Occurrences(color)
                   /\ Occurrences(color) > 0
                   /\ IsRounded2(ret.colors[n].frequency,
                                 Occurrences(color), Len(PixelsIn))
        /\ PixelsIn = <<Opaque, Transparent>> =>
               /\ Len(ret.colors) = 1
               /\ ret.colors[1].rgb = <<255, 0, 0>>
               /\ ret.colors[1].frequency = 5000

HalfTransparentImageAnalysed ==
    /\ Returned
    /\ PixelsIn = <<Opaque, Transparent>>
    /\ Len(ret.colors) = 1
    /\ ret.colors[1].frequency = 5000

\* C4 as stated: the sum of the rounded frequencies is at most 100, and
\* strictly less than 100 when some pixel has alpha = 0.
SumAtMostHundred ==
    Returned =>
        /\ SumFrequencies(ret.colors) <= 10000
        /\ (\E j \in 1..Len(PixelsIn) : PixelsIn[j][4] = 0) =>
               SumFrequencies(ret.colors) < 10000

\* C4: the sum of the rounded frequencies is at most 100 times the share of
\* the alpha > 0 pixels among all pixels, plus 0.005 for each record: the
\* share is at most 1, and below 1 when some pixel has alpha = 0, but each
\* rounding may add up to half a hundredth.
SumWithinRoundingOfVisibleShare ==
    Returned =>
        LET visible == Cardinality({j \in 1..Len(PixelsIn) :
                                       PixelsIn[j][4] > 0})
        IN  /\ 2 * Len(PixelsIn) * SumFrequencies(ret.colors) <=
                   20000 * visible + Len(ret.colors) * Len(PixelsIn)
            /\ visible <= Len(PixelsIn)
            /\ (\E j \in 1..Len(PixelsIn) : PixelsIn[j][4] = 0) =>
                   visible < Len(PixelsIn)

SumRoundedAboveHundred ==
    Returned /\ SumFrequencies(ret.colors) > 10000

\* C8: under the frequency criterion the returned list is in non-increasing
\* order of pixel count, and entries with equal counts are in the order in
\* which their colours were first met in the pixel stream.
FrequencyOrderStable ==
    (Returned /\ call.sort_by = "frequency") =>
        /\ Len(frame.sorted_colors) = Len(ret.colors)
        /\ \A n \in 1..Len(ret.colors) :
               ret.colors[n].rgb = RGBOf(frame.sorted_colors[n][1])
        /\ \A i, j \in 1..Len(ret.colors) :
               i < j =>
                   LET ci == frame.sorted_colors[i][1]
                       cj == frame.sorted_colors[j][1]
                   IN  /\ Occurrences(ci) >= Occurrences(cj)
                       /\ ret.colors[i].frequency >= ret.colors[j].frequency
                       /\ Occurrences(ci) = Occurrences(cj) =>
                              FirstIndex(ci) < FirstIndex(cj)

TieKeepsEncounterOrder ==
    /\ Returned
    /\ call.sort_by = "frequency"
    /\ PixelsIn = <<Navy, Opaque, Translucent, Translucent>>
    /\ [n \in 1..Len(ret.colors) |-> ret.colors[n].rgb] =
           <<<<255, 0, 0>>, <<0, 0, 128>>, <<255, 0, 0>>>>

(***************************************************************************)
(* ImageAnalyzer.save_analysis and batch_process                           *)
(*                                                                         *)
(* The output directory is a function from file names to the lines         *)
(* written; a line is the tuple of its label and the values formatted into *)
(* it.  A file name is the tuple of its parts.                             *)
(***************************************************************************)
SUPPORTED_FORMATS == {".png", ".jpg", ".jpeg", ".tiff", ".webp", ".psd"}

\* str.lower() on the suffixes met here
Lower(str) ==
    CASE str = ".PNG" -> ".png"
      [] str = ".JPG" -> ".jpg"
      [] OTHER        -> str

\* str.capitalize() on the harmony types, in the order of the dict literal
HarmonyTypes == <<"complementary", "analogous", "triadic", "tetradic">>

Capitalize(str) ==
    CASE str = "complementary" -> "Complementary"
      [] str = "analogous"     -> "Analogous"
      [] str = "triadic"       -> "Triadic"
      [] str = "tetradic"      -> "Tetradic"

RECURSIVE Flatten(_)
Flatten(seqs) ==
    IF seqs = <<>> THEN <<>> ELSE Head(seqs) \o Flatten(Tail(seqs))

\* the lines of one "Color #idx" block
ColorLines(idx, color) ==
    <<<<"Color #", idx>>, <<"RGB", color.rgb>>, <<"HEX", color.hex>>,
      <<"CMYK", color.cmyk>>, <<"Frequency", color.frequency>>,
      <<"Color Harmonies">>>>
    \o Flatten([t \in 1..Len(HarmonyTypes) |->
           <<<<Capitalize(HarmonyTypes[t])>>>>
           \o [n \in 1..Len(color.harmonies[HarmonyTypes[t]]) |->
                  <<"RGB", color.harmonies[HarmonyTypes[t]][n]>>]])

\* everything f.write receives, in order
ReportLines(image_info, sort_by) ==
    <<<<"Image Analysis for", image_info.filename>>,
      <<"Dimensions", image_info.dimensions[1], image_info.dimensions[2]>>,
      <<"Format", image_info.format>>>>
    \o (IF image_info.dominant_color # None
        THEN <<<<"Dominant Color", image_info.dominant_color>>>>
        ELSE <<>>)
    \o <<<<"Colors sorted by", sort_by>>>>
    \o Flatten([idx \in 1..Len(image_info.colors) |->
                   ColorLines(idx, image_info.colors[idx])])

\* output_dir / f"{image_info.filename}_analysis.txt"
OutputFile(filename) == filename \o <<"_analysis.txt">>

\* The result holds the output directory after the write and what is logged.
save_analysis(output_dir, image_info, sort_by) ==
    LET output_file == OutputFile(image_info.filename)
    IN  [output_dir |->
            [f \in DOMAIN output_dir \cup {output_file} |->
                IF f = output_file
                THEN ReportLines(image_info, sort_by)
                ELSE output_dir[f]],
         logs |-> <<<<"INFO", "Analysis saved to", output_file>>>>]

\* Lines 291-292 for file_path, where res is what analyze_image gave; st
\* holds the number i of files done, the log and the output directory.
AfterAnalysis(file_path, res, sort_by, st) ==
    IF res.image_info = None
    THEN [i         |-> st.i + 1,
          logged    |-> st.logged
                        \o <<<<"INFO", "Processing", file_path>>>>
                        \o res.logs,
          out_files |-> st.out_files]
    ELSE LET saved == save_analysis(st.out_files, res.image_info, sort_by)
         IN  [i         |-> st.i + 1,
              logged    |-> st.logged
                            \o <<<<"INFO", "Processing", file_path>>>>
                            \o res.logs \o saved.logs,
              out_files |-> saved.output_dir]

\* The body of the for loop of batch_process for file_path, which holds img
BatchStep(file_path, img, sort_by, st) ==
    IF Lower(file_path.suffix) \notin SUPPORTED_FORMATS
    THEN [st EXCEPT !.i = @ + 1]
    ELSE AfterAnalysis(file_path, analyze_image(file_path, img, sort_by),
                       sort_by, st)

\* a failed analysis ends the run
batch_iteration_abort(listing, disk, sort_by, st) ==
    IF /\ Lower(listing[st.i + 1].suffix) \in SUPPORTED_FORMATS
       /\ ~disk[listing[st.i + 1]].ok
    THEN [BatchStep(listing[st.i + 1], disk[listing[st.i + 1]], sort_by, st)
              EXCEPT !.i = Len(listing)]
    ELSE BatchStep(listing[st.i + 1], disk[listing[st.i + 1]], sort_by, st)

\* One pass of the for loop of batch_process, over listing[st.i + 1]
batch_iteration(listing, disk, sort_by, st) ==
    BatchStep(listing[st.i + 1], disk[listing[st.i + 1]], sort_by, st)

\* Largest number of paths input_dir.rglob('*') yields
MaxFiles == 3

TreePaths ==
    {[parent |-> "a", stem |-> "x", suffix |-> ".png"],
     [parent |-> "b", stem |-> "x", suffix |-> ".png"],
     [parent |-> "a", stem |-> "y", suffix |-> ".PNG"],
     [parent |-> "a", stem |-> "notes", suffix |-> ".txt"]}

TreeContents ==
    {[ok |-> TRUE, format |-> "PNG", pixels |-> <<Opaque>>],
     [ok |-> TRUE, format |-> "PNG", pixels |-> <<Navy, Transparent>>],
     Unreadable}

\* the orders in which rglob may yield the paths of a tree
Listings ==
    {ls \in UNION {[1..n -> TreePaths] : n \in 1..MaxFiles} :
        \A i, j \in 1..Len(ls) : ls[i] = ls[j] => i = j}

InitBatch ==
    /\ pc = "loop"
    /\ \E listing \in Listings :
       \E disk \in [{listing[k] : k \in 1..Len(listing)} -> TreeContents] :
       \E sort_by \in SortCriteria :
          call = [op |-> "batch_process", listing |-> listing,
                  disk |-> disk, sort_by |-> sort_by]
    /\ ret = None
    /\ frame = [i |-> 0]
    /\ logged = <<>>
    /\ out_files = <<>>

BatchIteration ==
    /\ pc = "loop"
    /\ frame.i < Len(call.listing)
    /\ \E st \in {batch_iteration(call.listing, call.disk, call.sort_by,
                                  [i |-> frame.i, logged |-> logged,
                                   out_files |-> out_files])} :
           /\ frame' = [i |-> st.i]
           /\ logged' = st.logged
           /\ out_files' = st.out_files
    /\ UNCHANGED <<pc, call, ret>>

BatchReturn ==
    /\ pc = "loop"
    /\ frame.i >= Len(call.listing)
    /\ pc' = "return"
    /\ UNCHANGED <<call, ret, frame, logged, out_files>>

NextBatch == BatchIteration \/ BatchReturn

SpecBatch == InitBatch /\ [][NextBatch]_vars

(***************************************************************************)
(* Properties of batch_process                                             *)
(***************************************************************************)
BatchDone == pc = "return" /\ call.op = "batch_process"

IsSupported(k) == Lower(call.listing[k].suffix) \in SUPPORTED_FORMATS

Decodes(k) == call.disk[call.listing[k]].ok

ReportOf(k) == OutputFile(Name(call.listing[k]))

\* what the logger receives for the k-th path when the run reaches it
ExpectedLogOf(k) ==
    IF ~IsSupported(k) THEN <<>>
    ELSE <<<<"INFO", "Processing", call.listing[k]>>>>
         \o (IF Decodes(k)
             THEN <<<<"INFO", "Analysis saved to", ReportOf(k)>>>>
             ELSE <<<<"ERROR", "Error processing", call.listing[k]>>>>)

\* C5: a file whose decoding fails is logged and skipped, with no report
\* written for it, and the run goes on: every supported file of the sequence,
\* the later ones included, is analysed, and gets its report written if its
\* analysis succeeds.
BatchSkipsFailedAndContinues ==
    BatchDone =>
        /\ logged = Flatten([k \in 1..Len(call.listing) |-> ExpectedLogOf(k)])
        /\ DOMAIN out_files =
               {ReportOf(k) : k \in {n \in 1..Len(call.listing) :
                                        IsSupported(n) /\ Decodes(n)}}

LaterFileReportedAfterFailure ==
    /\ BatchDone
    /\ \E k, n \in 1..Len(call.listing) :
           /\ k < n
           /\ IsSupported(k) /\ ~Decodes(k)
           /\ IsSupported(n) /\ Decodes(n)
           /\ ReportOf(k) \notin DOMAIN out_files
           /\ ReportOf(n) \in DOMAIN out_files

\* C10: when the run is over, every supported image whose analysis succeeded
\* has its own report in the output directory, holding that image's
\* analysis: no report is overwritten by the report of another image.
EveryImageKeepsItsReport ==
    BatchDone =>
        \A k \in 1..Len(call.listing) :
            (IsSupported(k) /\ Decodes(k)) =>
                /\ ReportOf(k) \in DOMAIN out_files
                /\ out_files[ReportOf(k)] =
                       ReportLines(
                           analyze_image(call.listing[k],
                                         call.disk[call.listing[k]],
                                         call.sort_by).image_info,
                           call.sort_by)

(***************************************************************************)
(* ColorConverter.hex_to_rgb on its own                                    *)
(***************************************************************************)
\* Longest string handed to hex_to_rgb
MaxHexLen == 7

HexAlphabet == {"#", "1", "f", "g", "-"}

InitHex ==
    /\ pc = "call"
    /\ \E hex_color \in UNION {[1..n -> HexAlphabet] : n \in 0..MaxHexLen} :
          call = [op |-> "hex_to_rgb", hex_color |-> hex_color]
    /\ ret = None
    /\ frame = <<>>
    /\ logged = <<>>
    /\ out_files = <<>>

\* the call returns a value
HexToRgbReturn ==
    /\ pc = "call"
    /\ call.op = "hex_to_rgb"
    /\ ~hex_to_rgb(call.hex_color).raised
    /\ ret' = hex_to_rgb(call.hex_color).value
    /\ pc' = "return"
    /\ UNCHANGED <<call, frame, logged, out_files>>

\* the call ends in a ValueError
HexToRgbRaise ==
    /\ pc = "call"
    /\ call.op = "hex_to_rgb"
    /\ hex_to_rgb(call.hex_color).raised
    /\ pc' = "raise"
    /\ UNCHANGED <<call, ret, frame, logged, out_files>>

NextHex == HexToRgbReturn \/ HexToRgbRaise

SpecHex == InitHex /\ [][NextHex]_vars

\* six hex digits after an optional single leading '#'
WellFormedHex(str) ==
    LET body == IF str # <<>> /\ Head(str) = "#" THEN Tail(str) ELSE str
    IN  Len(body) = 6 /\ \A i \in 1..6 : IsHexDigit(body[i])

\* C6: hex_to_rgb returns an RGB value for six hex digits after an optional
\* single '#', and for nothing else: any other length, or any character that
\* is not a hex digit, ends in a format error.
HexAcceptsOnlySixDigits ==
    (call.op = "hex_to_rgb" /\ pc # "call") =>
        (pc = "return" <=> WellFormedHex(call.hex_color))

(***************************************************************************)
(* ColorConverter.rgb_to_cmyk on its own                                   *)
(***************************************************************************)
\* Channels 0..MaxChannel and 255 are converted
MaxChannel == 8

CmykChannels == 0..MaxChannel \cup {255}

InitCmyk ==
    /\ pc = "call"
    /\ \E r, g, b \in CmykChannels :
          call = [op |-> "rgb_to_cmyk", r |-> r, g |-> g, b |-> b]
    /\ ret = None
    /\ frame = <<>>
    /\ logged = <<>>
    /\ out_files = <<>>

RgbToCmyk ==
    /\ pc = "call"
    /\ call.op = "rgb_to_cmyk"
    /\ ret' = rgb_to_cmyk(call.r, call.g, call.b)
    /\ pc' = "return"
    /\ UNCHANGED <<call, frame, logged, out_files>>

NextCmyk == RgbToCmyk

SpecCmyk == InitCmyk /\ [][NextCmyk]_vars

CmykDone == pc = "return" /\ call.op = "rgb_to_cmyk"

MaxChannelOf(rec) ==
    LET rg == IF rec.r > rec.g THEN rec.r ELSE rec.g
    IN  IF rg > rec.b THEN rg ELSE rec.b

\* The exact percentages as fractions <<numerator, denominator>>:
\* 100*(c-k)/(1-k) = 100*(max-r)/max, likewise m and y, and 100*k =
\* 100*(255-max)/255
ExactCmyk(rec) ==
    LET mx == MaxChannelOf(rec)
    IN  <<<<100 * (mx - rec.r), mx>>, <<100 * (mx - rec.g), mx>>,
          <<100 * (mx - rec.b), mx>>, <<100 * (255 - mx), 255>>>>

\* C7 as stated: off black, each percentage is the exact value rounded to
\* the nearest integer, an exact half going away from zero; black gives
\* (0,0,0,100) and white (0,0,0,0).
CmykRoundsHalfAwayFromZero ==
    CmykDone =>
        IF MaxChannelOf(call) = 0 THEN ret = <<0, 0, 0, 100>>
        ELSE /\ \A n \in 1..4 :
                    ret[n] = (2 * ExactCmyk(call)[n][1] + ExactCmyk(call)[n][2])
                                 \div (2 * ExactCmyk(call)[n][2])
             /\ MaxChannelOf(call) = 255 /\ call.r = 255 /\ call.g = 255
                    /\ call.b = 255 => ret = <<0, 0, 0, 0>>

\* C7: off black, each percentage is the exact value rounded to a nearest
\* integer; an exact half goes up or down as the float computed for it falls
\* ((7,8,8) has 12.5 and gives 12, (3,8,8) has 62.5 and gives 63); black
\* gives (0,0,0,100) and white (0,0,0,0).
CmykRoundsToNearest ==
    CmykDone =>
        /\ MaxChannelOf(call) = 0 => ret = <<0, 0, 0, 100>>
        /\ MaxChannelOf(call) # 0 =>
               \A n \in 1..4 :
                   LET num   == ExactCmyk(call)[n][1]
                       den   == ExactCmyk(call)[n][2]
                       twice == 2 * den * ret[n] - 2 * num
                   IN  -den <= twice /\ twice <= den
        /\ (call.r = 255 /\ call.g = 255 /\ call.b = 255) =>
               ret = <<0, 0, 0, 0>>
        /\ (call.r = 7 /\ call.g = 8 /\ call.b = 8) => ret[1] = 12
        /\ (call.r = 3 /\ call.g = 8 /\ call.b = 8) => ret[1] = 63

HalfRoundedDown ==
    /\ CmykDone
    /\ call.r = 7 /\ call.g = 8 /\ call.b = 8
    /\ ret = <<12, 0, 0, 97>>

(***************************************************************************)
(* ColorHarmony.find_harmonies on its own                                  *)
(***************************************************************************)
HarmonyChannels == {0, 51, 102, 153, 204, 255}

InitHarmony ==
    /\ pc = "call"
    /\ \E r, g, b \in HarmonyChannels :
          call = [op |-> "find_harmonies", base_color |-> <<r, g, b>>]
    /\ ret = None
    /\ frame = <<>>
    /\ logged = <<>>
    /\ out_files = <<>>

FindHarmonies ==
    /\ pc = "call"
    /\ call.op = "find_harmonies"
    /\ ret' = find_harmonies(call.base_color)
    /\ pc' = "return"
    /\ UNCHANGED <<call, frame, logged, out_files>>

NextHarmony == FindHarmonies

SpecHarmony == InitHarmony /\ [][NextHarmony]_vars

HarmonyDone == pc = "return" /\ call.op = "find_harmonies"

\* The colour with the hue of rgb turned by deg degrees (a multiple of 30)
\* and the S and V of rgb, each component times 255 truncated, in exact
\* arithmetic: with d = max - min the hue is held in units of 1/(2d) of a
\* sextant of the colour wheel.
ExactRotation(rgb, deg) ==
    LET mx == MaxChannelOf([r |-> rgb[1], g |-> rgb[2], b |-> rgb[3]])
        mn == -MaxChannelOf([r |-> -rgb[1], g |-> -rgb[2], b |-> -rgb[3]])
        d  == mx - mn
    IN  IF d = 0 THEN <<mx, mx, mx>>
        ELSE LET hue  == IF rgb[1] = mx THEN (rgb[2] - rgb[3]) % (6 * d)
                         ELSE IF rgb[2] = mx THEN 2 * d + (rgb[3] - rgb[1])
                         ELSE 4 * d + (rgb[1] - rgb[2])
                 hue2 == (2 * hue + (deg \div 30) * d) % (12 * d)
                 sext == hue2 \div (2 * d)
                 fnum == hue2 % (2 * d)
                 down == (2 * mx - fnum) \div 2
                 up   == (2 * mn + fnum) \div 2
             IN  CASE sext = 0 -> <<mx, up, mn>>
                   [] sext = 1 -> <<down, mx, mn>>
                   [] sext = 2 -> <<mn, mx, up>>
                   [] sext = 3 -> <<mn, down, mx>>
                   [] sext = 4 -> <<up, mn, mx>>
                   [] sext = 5 -> <<mx, mn, down>>

\* the hue offsets of each kind, in order
HueOffsets ==
    [complementary |-> <<180>>,
     analogous     |-> <<-30, 0, 30>>,
     triadic       |-> <<120, 0, 240>>,
     tetradic      |-> <<0, 90, 180, 270>>]

\* a truncated component may fall one short of the exact one
WithinTruncation(rgb, exact) ==
    \A n \in 1..3 : rgb[n] \in {exact[n] - 1, exact[n]}

\* C9: find_harmonies returns the four kinds complementary, analogous,
\* triadic, tetradic with 1, 3, 3 and 4 entries, at the hues [h+180],
\* [h-30, h, h+30], [h+120, h, h+240], [h, h+90, h+180, h+270] with the S
\* and V of the base, components times 255 truncated; the base hue is the
\* second triadic and the first tetradic entry, the third tetradic entry is
\* the complementary one, and (255,0,0) has complementary (0,255,255).
HarmoniesFollowHueOffsets ==
    HarmonyDone =>
        /\ DOMAIN ret = DOMAIN HueOffsets
        /\ \A kind \in DOMAIN HueOffsets :
               /\ Len(ret[kind]) = Len(HueOffsets[kind])
               /\ \A n \in 1..Len(HueOffsets[kind]) :
                      WithinTruncation(ret[kind][n],
                          ExactRotation(call.base_color, HueOffsets[kind][n]))
        /\ ret.triadic[2] = ret.tetradic[1]
        /\ ret.triadic[2] = ret.analogous[2]
        /\ ret.tetradic[3] = ret.complementary[1]
        /\ call.base_color = <<255, 0, 0>> =>
               ret.complementary = <<<<0, 255, 255>>>>

RedHasCyanComplement ==
    /\ HarmonyDone
    /\ call.base_color = <<255, 0, 0>>
    /\ ret.complementary = <<<<0, 255, 255>>>>
    /\ ret.triadic = <<<<0, 255, 0>>, <<255, 0, 0>>, <<0, 0, 255>>>>

=============================================================================
